---- MODULE Spec2Model ----
(***************************************************************************)
(* Model of the builtin provider's service client                          *)
(* (provider/internal/builtin): compileRegex, isFileIncluded, getLocation, *)
(* parallelWalk / processFile and Evaluate.                                *)
(*                                                                         *)
(* Strings are sequences of one-character strings, so that splitting,      *)
(* joining and prefix tests are computed the way the Go code computes      *)
(* them.                                                                   *)
(***************************************************************************)
EXTENDS Integers, Sequences, FiniteSets, TLC

VARIABLES
    \* ---- compileRegex ----
    pattern,        \* the pattern handed to compileRegex
    selector,       \* the regexSelector returned (engine "none" before the call)
    \* ---- isFileIncluded (stand-alone calls) ----
    inclScopes,     \* b.includedPaths (also the configuration Evaluate runs under)
    inclPath,       \* the absolutePath argument
    inclResult,     \* "none" before the call, then "included" / "excluded"
    \* ---- Evaluate ----
    evPc,           \* "ready" | "returned"
    cap,            \* the capability asked for
    cond,           \* the builtinCondition unmarshalled from conditionInfo
    fsBad,          \* the files that cannot be opened / cannot be parsed
    response,       \* the ProviderEvaluateResponse and whether an error came with it
    filePaths,      \* json, xml, xmlPublicID: the list handed to GetFiles
    openHandles,    \* files opened by the evaluation and not closed
    \* ---- getLocation (concurrent calls on one service client) ----
    locationCache,  \* b.locationCache: cache key -> line, -1 for a failure
    fileLine,       \* per file: what the multi-line search finds in it now
    call,           \* per thread: the getLocation call it is in or has left
    nCalls,         \* calls started so far
    writes,         \* history: cache key -> number of cache writes
    misses,         \* history: cache key -> number of lookups that missed
    firstDone,      \* history: (path, content) -> outcome of the first call returned
    raced,          \* history: pairs whose first call overlapped another call of its key
    \* ---- parallelWalk ----
    walkPc,         \* "walking" | "waiting" | "returned"
    walked,         \* number of tree entries the walk callback has been called for
    scheduled,      \* number of eg.Go calls that have started a worker
    running,        \* workers for readable files that are inside processFile
    runningBad,     \* entries of unreadable files whose worker is running
    egErr,          \* errgroup's first error: 0 (nil) or the entry that failed
    positions,      \* number of per-file result batches appended to positions
    lateSchedule,   \* history: a worker was started after another had failed
    walkRet         \* "none" | "ok" | "workerErr" | "walkErr"

regexVars == <<pattern, selector>>
inclVars  == <<inclScopes, inclPath, inclResult>>
evalVars  ==
    <<evPc, cap, cond, fsBad, response, filePaths, openHandles>>
locVars   ==
    <<locationCache, fileLine, call, nCalls, writes, misses, firstDone, raced>>
walkVars  ==
    <<walkPc, walked, scheduled, running, runningBad, egErr, positions,
      lateSchedule, walkRet>>

----------------------------------------------------------------------------
(* Strings                                                                 *)

\* strings.HasPrefix
HasPrefix(s, prefix) ==
    Len(s) >= Len(prefix) /\ SubSeq(s, 1, Len(prefix)) = prefix

RECURSIVE SplitAcc(_, _, _, _)
SplitAcc(s, sep, i, cur) ==
    IF i > Len(s) THEN <<cur>>
    ELSE IF s[i] = sep THEN <<cur>> \o SplitAcc(s, sep, i + 1, <<>>)
    ELSE SplitAcc(s, sep, i + 1, Append(cur, s[i]))

\* strings.Split(s, sep) for a one-character separator: Split("", sep) is [""].
Split(s, sep) == SplitAcc(s, sep, 1, <<>>)

RECURSIVE JoinStr(_, _)
\* strings.Join(elems, sep)
JoinStr(elems, sep) ==
    IF Len(elems) = 0 THEN <<>>
    ELSE IF Len(elems) = 1 THEN elems[1]
    ELSE elems[1] \o sep \o JoinStr(Tail(elems), sep)

\* The elements of a sequence that satisfy Keep, in order.
RECURSIVE SelectNonEmpty(_)
SelectNonEmpty(elems) ==
    IF Len(elems) = 0 THEN <<>>
    ELSE (IF elems[1] # <<>> THEN <<elems[1]>> ELSE <<>>) \o SelectNonEmpty(Tail(elems))

Range(f) == {f[i] : i \in DOMAIN f}

----------------------------------------------------------------------------
(* compileRegex                                                            *)

\* var LOOK_SYNTAX = []string{"(?=", "(?!", "(?<=", "(?<!"}
LOOK_SYNTAX ==
    << <<"(", "?", "=">>, <<"(", "?", "!">>,
       <<"(", "?", "<", "=">>, <<"(", "?", "<", "!">> >>

\* slices.Contains: some element equals v.
SlicesContains(list, v) == \E i \in 1..Len(list) : list[i] = v

\* The regexSelector compileRegex builds: which engine compiled the pattern.
compileRegex(p) ==
    IF SlicesContains(LOOK_SYNTAX, p)
    THEN [engine |-> "regexp2"]
    ELSE [engine |-> "regexp"]

\* Longest pattern tried.
MaxPatLen == 4

PatternChars == {"(", "?", "=", "!", "<", "a"}

Patterns == UNION {[1..n -> PatternChars] : n \in 0..MaxPatLen}

RegexIdle == pattern = <<>> /\ selector = [engine |-> "idle"]

RegexInit == pattern \in Patterns /\ selector = [engine |-> "none"]

CompileRegex ==
    /\ selector.engine = "none"
    /\ selector' = compileRegex(pattern)
    /\ UNCHANGED pattern

----------------------------------------------------------------------------
(* Paths and the analysed tree                                             *)

Sep == "/"

src    == <<"s", "r", "c">>
srcfoo == <<"s", "r", "c", "f", "o", "o">>
lib    == <<"l", "i", "b">>
dirA   == <<"a">>
root   == <<"r">>
aTxt   == <<"a", ".", "t", "x", "t">>
bTxt   == <<"b", ".", "t", "x", "t">>
pXml   == <<"p", ".", "x", "m", "l">>
qXml   == <<"q", ".", "x", "m", "l">>
cJson  == <<"c", ".", "j", "s", "o", "n">>
dJson  == <<"d", ".", "j", "s", "o", "n">>
dot    == <<".">>
dotdot == <<".", ".">>

\* filepath.IsAbs
IsAbs(path) == Len(path) > 0 /\ path[1] = Sep

RECURSIVE CleanSegs(_, _, _)
\* The lexical walk of filepath.Clean over the elements of a path: "" and
\* "." are dropped, ".." removes the element before it (at the root it is
\* dropped, in a relative path with nothing before it, it is kept).
CleanSegs(elems, acc, rooted) ==
    IF Len(elems) = 0 THEN acc
    ELSE LET e == elems[1] rest == Tail(elems) IN
         IF e = <<>> \/ e = dot THEN CleanSegs(rest, acc, rooted)
         ELSE IF e = dotdot
              THEN IF Len(acc) > 0 /\ acc[Len(acc)] # dotdot
                   THEN CleanSegs(rest, SubSeq(acc, 1, Len(acc) - 1), rooted)
                   ELSE IF rooted THEN CleanSegs(rest, acc, rooted)
                   ELSE CleanSegs(rest, Append(acc, e), rooted)
              ELSE CleanSegs(rest, Append(acc, e), rooted)

\* filepath.Clean
Clean(path) ==
    LET segs == CleanSegs(Split(path, Sep), <<>>, IsAbs(path)) IN
    IF IsAbs(path) THEN <<Sep>> \o JoinStr(segs, <<Sep>>)
    ELSE IF Len(segs) = 0 THEN dot
    ELSE JoinStr(segs, <<Sep>>)

\* filepath.Join(a, b)
PathJoin(a, b) ==
    IF a = <<>> THEN (IF b = <<>> THEN <<>> ELSE Clean(b))
    ELSE IF b = <<>> THEN Clean(a)
    ELSE Clean(a \o <<Sep>> \o b)

\* The working directory of the process.
Cwd == <<Sep>> \o <<"w">>

\* filepath.Abs
Abs(path) == IF IsAbs(path) THEN Clean(path) ELSE PathJoin(Cwd, path)

\* filepath.Dir: everything before the last separator, cleaned.
PathDir(path) ==
    LET idx == {i \in 1..Len(path) : path[i] = Sep} IN
    IF idx = {} THEN dot
    ELSE LET last == CHOOSE i \in idx : \A j \in idx : j <= i IN
         IF last = 1 THEN <<Sep>> ELSE Clean(SubSeq(path, 1, last - 1))

\* filepath.Base for a cleaned path.
PathBase(path) ==
    LET elems == SelectNonEmpty(Split(path, Sep)) IN
    IF path = <<>> THEN dot
    ELSE IF Len(elems) = 0 THEN <<Sep>>
    ELSE elems[Len(elems)]

\* An absolute path from its elements.
AbsOf(elems) == <<Sep>> \o JoinStr(elems, <<Sep>>)

\* p.config.Location
Location == AbsOf(<<root>>)

\* The directories of the analysed tree.
Dirs ==
    { AbsOf(<<root>>), AbsOf(<<root, src>>), AbsOf(<<root, src, dirA>>),
      AbsOf(<<root, srcfoo>>), AbsOf(<<root, lib>>) }

\* The regular files of the analysed tree, in walk order.
TreeFiles ==
    << AbsOf(<<root, lib, aTxt>>),
       AbsOf(<<root, lib, dJson>>),
       AbsOf(<<root, lib, qXml>>),
       AbsOf(<<root, src, dirA, bTxt>>),
       AbsOf(<<root, src, cJson>>),
       AbsOf(<<root, src, pXml>>),
       AbsOf(<<root, srcfoo, aTxt>>) >>

\* os.Stat(path): err == nil && stat.IsDir()
StatIsDir(path) == path \in Dirs

----------------------------------------------------------------------------
(* isFileIncluded                                                          *)

\* The getSegments closure: the non-empty elements of the cleaned path.
getSegments(path) == SelectNonEmpty(Split(Clean(path), Sep))

\* The test one scope makes.
ScopeMatches(absolutePath, path) ==
    LET includedPath == Abs(PathJoin(Location, path))
        pathSegments ==
            IF StatIsDir(includedPath)
            THEN getSegments(PathDir(absolutePath))
            ELSE getSegments(absolutePath)
        includedPathSegments == getSegments(includedPath)
    IN  /\ Len(pathSegments) >= Len(includedPathSegments)
        /\ HasPrefix(JoinStr(pathSegments, <<>>), JoinStr(includedPathSegments, <<>>))

isFileIncluded(absolutePath, includedPaths) ==
    IF Len(includedPaths) = 0 THEN TRUE
    ELSE \E i \in 1..Len(includedPaths) : ScopeMatches(absolutePath, includedPaths[i])

\* Scope lists tried (relative to Location): src, src/, lib, a file scope,
\* two scopes, a scope that does not exist.
ScopeLists ==
    { <<>>,
      <<src>>,
      <<src \o <<Sep>>>>,
      <<lib>>,
      <<src \o <<Sep>> \o dirA>>,
      <<src \o <<Sep>> \o cJson>>,
      <<lib, srcfoo>>,
      <<dirA>>,
      <<dot \o <<Sep>> \o lib \o <<Sep>> \o dotdot \o <<Sep>> \o src>> }

\* Candidate paths tried: the files of the tree and two outside it.
InclCandidates ==
    Range(TreeFiles) \cup { AbsOf(<<root, src>>), AbsOf(<<src, aTxt>>),
                            AbsOf(<<root, src \o cJson>>) }

InclIdle == inclScopes = <<>> /\ inclPath = <<>> /\ inclResult = "idle"

InclInit ==
    /\ inclScopes \in ScopeLists
    /\ inclPath \in InclCandidates
    /\ inclResult = "none"

IsFileIncluded ==
    /\ inclResult = "none"
    /\ inclResult' = IF isFileIncluded(inclPath, inclScopes) THEN "included" ELSE "excluded"
    /\ UNCHANGED <<inclScopes, inclPath>>

----------------------------------------------------------------------------
(* getLocation                                                             *)

NL  == "\n"
Tab == "\t"
Space == " "

\* parts = parts[:5]
MaxParts == 5

\* The characters regexp.QuoteMeta escapes.
MetaChars == {"\\", ".", "+", "*", "?", "(", ")", "|", "[", "]", "{", "}", "^", "$"}

RECURSIVE TrimLeft(_, _)
TrimLeft(s, ch) ==
    IF Len(s) > 0 /\ s[1] = ch THEN TrimLeft(Tail(s), ch) ELSE s

RECURSIVE TrimRight(_, _)
TrimRight(s, ch) ==
    IF Len(s) > 0 /\ s[Len(s)] = ch THEN TrimRight(SubSeq(s, 1, Len(s) - 1), ch) ELSE s

\* strings.Trim(s, " ")
Trim(s, ch) == TrimRight(TrimLeft(s, ch), ch)

\* strings.ReplaceAll(s, ch, "")
RemoveAll(s, ch) == SelectSeq(s, LAMBDA c : c # ch)

RECURSIVE QuoteMeta(_)
\* regexp.QuoteMeta
QuoteMeta(s) ==
    IF Len(s) = 0 THEN <<>>
    ELSE (IF s[1] \in MetaChars THEN <<"\\", s[1]>> ELSE <<s[1]>>) \o QuoteMeta(Tail(s))

\* The lines getLocation searches for: the first five parts of the content,
\* trimmed, without tabs, quoted, less one leading and one trailing empty line.
LocLines(content) ==
    LET parts0 == Split(content, NL)
        parts  == IF Len(parts0) > MaxParts THEN SubSeq(parts0, 1, MaxParts) ELSE parts0
        lines0 == [i \in 1..Len(parts) |-> QuoteMeta(RemoveAll(Trim(parts[i], Space), Tab))]
        lines1 == IF Len(lines0) > 0 /\ lines0[1] = <<>> THEN Tail(lines0) ELSE lines0
    IN  IF Len(lines1) > 0 /\ lines1[Len(lines1)] = <<>>
        THEN SubSeq(lines1, 1, Len(lines1) - 1)
        ELSE lines1

\* len(lines) < 1 || strings.Join(lines, "") == ""
EmptyContent(lines) == Len(lines) < 1 \/ JoinStr(lines, <<>>) = <<>>

Wild == <<".", "*", "?">>

\* pattern := fmt.Sprintf(".*?%s", strings.Join(lines, ".*?"))
LocPattern(lines) == Wild \o JoinStr(lines, Wild)

\* cacheKey := fmt.Sprintf("%s-%s", path, pattern)
CacheKey(path, pat) == path \o <<"-">> \o pat

LookupHit_Never(cache, key) == FALSE

\* val, exists := b.locationCache[cacheKey]; if exists { return ... }
LookupHit(cache, key) == key \in DOMAIN cache

CacheAfterStore_SkipFailure(cache, key, line) ==
    IF line = -1 THEN cache
    ELSE [k \in DOMAIN cache \cup {key} |-> IF k = key THEN line ELSE cache[k]]

\* The deferred b.locationCache[cacheKey] = location.StartPosition.Line
CacheAfterStore(cache, key, line) ==
    [k \in DOMAIN cache \cup {key} |-> IF k = key THEN line ELSE cache[k]]

\* provider.MultilineGrep on a file in state st: 0 is a file that cannot be
\* read (an error), -1 a file without a match, n > 0 the line of the match.
\* getLocation treats an error and -1 alike: the line stays -1.
GrepLine(st) == IF st = 0 THEN -1 ELSE st

\* Threads calling getLocation on the one service client.
NumThreads == 2

Threads == 1..NumThreads

\* getLocation calls started in one run.
MaxCalls == 3

locFile  == AbsOf(<<root, src, pXml>>)
\* A file whose name ends in "-.*?b": its key collides with locFile's.
locFile2 == locFile \o <<"-", ".", "*", "?", "b">>

LocFiles == {locFile, locFile2}

\* The life of a file during a run. locFile: as first analysed (the snippet
\* at line 1), then modified (the snippet at line 2), then deleted (0).
\* locFile2: as first analysed, then deleted.
FileNext(f, st) ==
    CASE st = 1 /\ f = locFile -> {2}
      [] st = 1 /\ f # locFile -> {0}
      [] st = 2 -> {0}
      [] OTHER -> {}

\* The (path, content) pairs the calls are made with: "b-<nl>a" (two
\* lines), "b-<nl> a<tab>" (the same pattern after trimming), "a" in the
\* second file (the same cache key), and " <nl> " (nothing left after
\* trimming).
LocCalls ==
    { <<locFile, <<"b", "-", NL, "a">>>>,
      <<locFile, <<"b", "-", NL, Space, "a", Tab>>>>,
      <<locFile2, <<"a">>>>,
      <<locFile, <<Space, NL, Space>>>> }

BagGet(b, k) == IF k \in DOMAIN b THEN b[k] ELSE 0

BagAdd(b, k) == [x \in DOMAIN b \cup {k} |-> IF x = k THEN BagGet(b, k) + 1 ELSE b[x]]

NoCall ==
    [pc |-> "idle", path |-> <<>>, content |-> <<>>, key |-> <<>>, line |-> 0,
     outcome |-> 0, later |-> FALSE, keyWasStored |-> FALSE, scanned |-> FALSE,
     wrote |-> FALSE]

LocIdle ==
    /\ locationCache = <<>> /\ fileLine = <<>> /\ call = <<>>
    /\ nCalls = 0 /\ writes = <<>> /\ misses = <<>>
    /\ firstDone = <<>> /\ raced = {}

\* A new service client: an empty cache, no call made.
LocInit ==
    /\ locationCache = <<>>
    /\ fileLine \in [LocFiles -> {1}]
    /\ call = [t \in Threads |-> NoCall]
    /\ nCalls = 0 /\ writes = <<>> /\ misses = <<>>
    /\ firstDone = <<>> /\ raced = {}

\* Another call of the key has missed the cache and not yet stored.
OtherInFlight(t, key) ==
    \E u \in Threads \ {t} : call[u].pc \in {"scan", "store"} /\ call[u].key = key

\* History kept when a call returns to its caller with `outcome` (-1: an
\* error): the first outcome per (path, content), and whether that first
\* call overlapped another call of its key.
NoteReturn(t, path, content, key, cached, outcome) ==
    LET pair == <<path, content>> IN
    IF pair \in DOMAIN firstDone
    THEN UNCHANGED <<firstDone, raced>>
    ELSE /\ firstDone' = [x \in DOMAIN firstDone \cup {pair} |->
                            IF x = pair THEN outcome ELSE firstDone[x]]
         /\ raced' = IF cached /\ (OtherInFlight(t, key) \/ locationCache[key] # outcome)
                     THEN raced \cup {pair} ELSE raced

\* getLocation up to the cache lookup: empty content returns an error, a hit
\* returns the cached line (an error for -1), a miss goes on to the search.
GetLocationBegin(t, path, content) ==
    /\ call[t].pc \in {"idle", "done"}
    /\ nCalls < MaxCalls
    /\ nCalls' = nCalls + 1
    /\ LET lines == LocLines(content)
           key   == CacheKey(path, LocPattern(lines))
           base  == [NoCall EXCEPT !.path = path, !.content = content,
                                   !.later = (<<path, content>> \in DOMAIN firstDone)]
       IN  IF EmptyContent(lines)
           THEN /\ call' = [call EXCEPT ![t] = [base EXCEPT !.pc = "done", !.outcome = -1]]
                /\ NoteReturn(t, path, content, key, FALSE, -1)
                /\ UNCHANGED misses
           ELSE IF LookupHit(locationCache, key)
           THEN /\ call' = [call EXCEPT ![t] =
                               [base EXCEPT !.pc = "done", !.key = key,
                                            !.keyWasStored = TRUE,
                                            !.outcome = locationCache[key]]]
                /\ NoteReturn(t, path, content, key, TRUE, locationCache[key])
                /\ UNCHANGED misses
           ELSE /\ call' = [call EXCEPT ![t] =
                               [base EXCEPT !.pc = "scan", !.key = key, !.line = -1,
                                            !.keyWasStored = (key \in DOMAIN locationCache)]]
                /\ misses' = BagAdd(misses, key)
                /\ UNCHANGED <<firstDone, raced>>
    /\ UNCHANGED <<locationCache, fileLine, writes>>

\* provider.MultilineGrep and what getLocation makes of its result.
GetLocationScan(t) ==
    /\ call[t].pc = "scan"
    /\ call' = [call EXCEPT ![t].pc = "store", ![t].scanned = TRUE,
                            ![t].line = GrepLine(fileLine[call[t].path]),
                            ![t].outcome = GrepLine(fileLine[call[t].path])]
    /\ UNCHANGED <<locationCache, fileLine, nCalls, writes, misses, firstDone, raced>>

\* The deferred function: the cache write under the write lock.
GetLocationStore(t) ==
    /\ call[t].pc = "store"
    /\ locationCache' = CacheAfterStore(locationCache, call[t].key, call[t].line)
    /\ writes' = BagAdd(writes, call[t].key)
    /\ call' = [call EXCEPT ![t].pc = "ret", ![t].wrote = TRUE]
    /\ UNCHANGED <<fileLine, nCalls, misses, firstDone, raced>>

\* getLocation returns to its caller after the deferred write.
GetLocationReturn(t) ==
    /\ call[t].pc = "ret"
    /\ call' = [call EXCEPT ![t].pc = "done"]
    /\ NoteReturn(t, call[t].path, call[t].content, call[t].key,
                  call[t].key \in DOMAIN locationCache, call[t].outcome)
    /\ UNCHANGED <<locationCache, fileLine, nCalls, writes, misses>>

\* The file is modified or deleted between calls or during them.
ModifyFile(f, st) ==
    /\ st \in FileNext(f, fileLine[f])
    /\ fileLine' = [fileLine EXCEPT ![f] = st]
    /\ UNCHANGED <<locationCache, call, nCalls, writes, misses, firstDone, raced>>

----------------------------------------------------------------------------
(* The documents of the analysed tree and the engines Evaluate calls       *)

fLibTxt    == AbsOf(<<root, lib, aTxt>>)
fLibJson   == AbsOf(<<root, lib, dJson>>)
fLibXml    == AbsOf(<<root, lib, qXml>>)
fSrcTxt    == AbsOf(<<root, src, dirA, bTxt>>)
fSrcJson   == AbsOf(<<root, src, cJson>>)
fSrcXml    == AbsOf(<<root, src, pXml>>)
fSrcfooTxt == AbsOf(<<root, srcfoo, aTxt>>)

\* strings.HasSuffix
HasSuffix(s, suffix) ==
    Len(s) >= Len(suffix) /\ SubSeq(s, Len(s) - Len(suffix) + 1, Len(s)) = suffix

\* s contains sub.
Contains(s, sub) ==
    \E i \in 0..(Len(s) - Len(sub)) : SubSeq(s, i + 1, i + Len(sub)) = sub

\* The patterns used here are literal text, or "(", which no engine compiles.
RegexCompiles(re) == \A i \in 1..Len(re) : re[i] # "("

\* MatchString of an unanchored literal pattern.
RegexMatch(re, str) == Contains(str, re)

\* filepath.Match of a pattern without wildcards.
GlobMatch(pat, name) == pat = name

xmlExt  == <<".", "x", "m", "l">>
jsonExt == <<".", "j", "s", "o", "n">>
txtText == <<"t", "x", "t">>
pidText == <<"p", "i", "d">>

\* The nodes of each XML document.
XmlNodes(f) ==
    IF f = fLibXml
    THEN << [innerText |-> <<"b", "-", NL, "a">>, data |-> <<"n">>, publicId |-> pidText] >>
    ELSE IF f = fSrcXml
    THEN << [innerText |-> <<Space>>, data |-> <<"a">>, publicId |-> <<>>],
            [innerText |-> <<"a">>, data |-> <<"m">>, publicId |-> <<"o">> \o pidText] >>
    ELSE <<>>

\* The nodes of each JSON document.
JsonNodes(f) ==
    IF f = fLibJson
    THEN << [innerText |-> <<"a">>, data |-> <<"k">>, publicId |-> <<>>] >>
    ELSE IF f = fSrcJson
    THEN << [innerText |-> <<"b", "-", NL, "a">>, data |-> <<"j">>, publicId |-> <<>>],
            [innerText |-> <<Space>>, data |-> <<"i">>, publicId |-> <<>>] >>
    ELSE <<>>

\* The xpath queries tried: all nodes, no node, one that does not compile,
\* the empty string.
qAll  == <<"/", "/", "*">>
qNone == <<"/", "/", "z">>
qBad  == <<"(">>

QueryCompiles(q) == q # qBad /\ q # <<>>

\* The nodes of a document that a query selects.
QueryNodes(nodes, q) == IF q = qAll THEN nodes ELSE <<>>

\* xpath "//*[@public-id]"
PublicIdNodes(nodes) == SelectSeq(nodes, LAMBDA n : n.publicId # <<>>)

\* The lines of each file that the content pattern "txt"-files hold: a match
\* is a (line, text) pair; only two text files have any.
FileMatches(f) ==
    IF f = fLibTxt THEN << [line |-> 3, text |-> <<"T">>] >>
    ELSE IF f = fSrcTxt THEN << [line |-> 1, text |-> <<"T">>], [line |-> 2, text |-> <<"T">>] >>
    ELSE <<>>

fileScheme == <<"f", "i", "l", "e", ":", "/", "/">>

\* uri.File(absPath)
UriFile(absPath) == fileScheme \o absPath

\* processFile: fmt.Sprintf("file:///%s", filepath.ToSlash(absPath))
WalkUri(absPath) == fileScheme \o <<Sep>> \o absPath

\* The path a file URI names.
UriPath(u) == Clean(SubSeq(u, Len(fileScheme) + 1, Len(u)))

\* cond.ProviderContext.GetScopedFilepaths(): (ok, paths)
GetScopedFilepaths(c) == c.scoped

\* provider.GetFiles(base, filePaths, patterns...): the given paths when
\* there are any, else the files of the tree with one of the extensions.
GetFiles(paths, exts) ==
    IF Len(paths) > 0 THEN paths
    ELSE SelectSeq(TreeFiles, LAMBDA f : \E e \in exts : HasSuffix(f, e))

\* provider.FilterFilePattern(filePattern, uri): no pattern accepts every file.
FilterFilePattern(filePattern, u) ==
    IF filePattern = <<>> THEN TRUE ELSE RegexMatch(filePattern, u)

----------------------------------------------------------------------------
(* Evaluate                                                                *)

\* provider.ProviderEvaluateResponse{Matched: false}, with the error that is
\* returned beside it and the handles the evaluation has left open.
NewResponse ==
    [Matched |-> FALSE, Incidents |-> <<>>, TemplateContext |-> <<>>, err |-> FALSE]

\* One provider.IncidentContext: line 0 stands for no LineNumber / CodeLocation.
Incident(u, line, text) == [FileURI |-> u, LineNumber |-> line, text |-> text]

CanOpen(f) == f \in Range(TreeFiles) /\ f \notin fsBad.unreadable

CanParse(f) == f \notin fsBad.malformed

WhiteSpace == {Space, Tab, NL}

RECURSIVE TrimSpace(_)
\* strings.TrimSpace
TrimSpace(str) ==
    IF Len(str) > 0 /\ str[1] \in WhiteSpace THEN TrimSpace(Tail(str))
    ELSE IF Len(str) > 0 /\ str[Len(str)] \in WhiteSpace
         THEN TrimSpace(SubSeq(str, 1, Len(str) - 1))
         ELSE str

\* getLocation called from Evaluate, start to end: the cache after the call
\* and the line found (-1: an error, the incident gets no location).
getLocation(cache, path, content) ==
    LET lines == LocLines(content)
        key   == CacheKey(path, LocPattern(lines))
    IN  IF EmptyContent(lines) THEN [cache |-> cache, line |-> -1]
        ELSE IF LookupHit(cache, key) THEN [cache |-> cache, line |-> cache[key]]
        ELSE LET found == GrepLine(fileLine[path]) IN
             [cache |-> CacheAfterStore(cache, key, found), line |-> found]

\* The LineNumber of an incident from getLocation's result (err == nil).
IncidentLine(line) == IF line = -1 THEN 0 ELSE line

\* queryXMLFile: the file is opened, parsed and queried; the handle is closed
\* on return (defer f.Close()) on every path after a successful open.
queryXMLFile(f, nodesOf) ==
    IF ~CanOpen(f) THEN [err |-> TRUE, nodes |-> <<>>, opened |-> 0, closed |-> 0]
    ELSE IF ~CanParse(f) THEN [err |-> TRUE, nodes |-> <<>>, opened |-> 1, closed |-> 1]
    ELSE [err |-> FALSE, nodes |-> nodesOf, opened |-> 1, closed |-> 1]

RECURSIVE NarrowOne(_, _, _)
\* The inner loop of the narrowing: the scoped paths equal to p or, with
\* byBase, with base name p (a path that is both is taken twice).
NarrowOne(p, paths, byBase) ==
    IF Len(paths) = 0 THEN <<>>
    ELSE (IF p = paths[1] THEN <<paths[1]>> ELSE <<>>)
         \o (IF byBase /\ PathBase(paths[1]) = p THEN <<paths[1]>> ELSE <<>>)
         \o NarrowOne(p, Tail(paths), byBase)

RECURSIVE Narrow(_, _, _)
\* newPaths: for each condition filepath, the scoped paths it keeps.
Narrow(filepaths, paths, byBase) ==
    IF Len(filepaths) = 0 THEN <<>>
    ELSE NarrowOne(filepaths[1], paths, byBase) \o Narrow(Tail(filepaths), paths, byBase)

\* The document set of xml and xmlPublicID: [stop |-> nothing to search,
\* paths |-> the list handed to findXMLFiles]. Both read cond.XML.Filepaths.
XmlFilePaths(c, byBase) ==
    LET scoped == GetScopedFilepaths(c) IN
    IF scoped.ok
    THEN IF Len(c.xmlFilepaths) > 0
         THEN LET newPaths == Narrow(c.xmlFilepaths, scoped.paths, byBase) IN
              [stop |-> Len(newPaths) = 0, paths |-> newPaths]
         ELSE [stop |-> FALSE, paths |-> scoped.paths]
    ELSE IF Len(c.xmlFilepaths) > 0
         THEN [stop |-> FALSE, paths |-> c.xmlFilepaths]
         ELSE [stop |-> FALSE, paths |-> <<>>]

\* findXMLFiles
findXMLFiles(paths) == GetFiles(paths, {xmlExt, <<".", "x", "h", "t", "m", "l">>})

RECURSIVE XmlNodeLoop(_, _, _, _)
\* xml: the loop over the nodes of one file. st = [resp, cache, handles].
XmlNodeLoop(st, file, nodes, scopes) ==
    IF Len(nodes) = 0 THEN st
    ELSE LET node == nodes[1]
             absPath == Abs(file)
         IN  IF ~isFileIncluded(absPath, scopes)
             THEN XmlNodeLoop(st, file, Tail(nodes), scopes)
             ELSE LET trimmed == TrimSpace(node.innerText)
                      content == IF trimmed = <<>> THEN node.data ELSE trimmed
                      loc == getLocation(st.cache, absPath, content)
                      inc == Incident(UriFile(absPath), IncidentLine(loc.line), node.innerText)
                  IN  XmlNodeLoop([st EXCEPT !.resp.Incidents = Append(@, inc),
                                             !.cache = loc.cache],
                                  file, Tail(nodes), scopes)

RECURSIVE XmlFileLoop(_, _, _, _)
\* xml: the loop over the files.
XmlFileLoop(st, files, q, scopes) ==
    IF Len(files) = 0 THEN st
    ELSE LET file == files[1]
             res  == queryXMLFile(file, QueryNodes(XmlNodes(file), q))
             st1  == [st EXCEPT !.handles = @ + res.opened - res.closed]
         IN  IF res.err THEN XmlFileLoop(st1, Tail(files), q, scopes)
             ELSE IF Len(res.nodes) # 0
             THEN XmlFileLoop(
                      XmlNodeLoop([st1 EXCEPT !.resp.Matched = TRUE], file, res.nodes, scopes),
                      Tail(files), q, scopes)
             ELSE XmlFileLoop(st1, Tail(files), q, scopes)

\* case "xml"
EvalXml(c, scopes, cache) ==
    LET st0 == [resp |-> NewResponse, cache |-> cache, handles |-> 0, paths |-> <<>>] IN
    IF ~QueryCompiles(c.xpath) THEN [st0 EXCEPT !.resp.err = TRUE]
    ELSE LET sel == XmlFilePaths(c, TRUE) IN
         IF sel.stop THEN [st0 EXCEPT !.paths = sel.paths]
         ELSE XmlFileLoop([st0 EXCEPT !.paths = sel.paths],
                          findXMLFiles(sel.paths), c.xpath, scopes)

RECURSIVE PublicIdNodeLoop(_, _, _, _, _)
\* xmlPublicID: the loop over the nodes of one file (each node here carries
\* at most one public-id attribute).
PublicIdNodeLoop(st, file, nodes, re, scopes) ==
    IF Len(nodes) = 0 THEN st
    ELSE LET node == nodes[1] IN
         IF node.publicId # <<>> /\ RegexMatch(re, node.publicId)
         THEN LET st1 == [st EXCEPT !.resp.Matched = TRUE]
                  absPath == Abs(file)
              IN  IF ~isFileIncluded(absPath, scopes)
                  THEN PublicIdNodeLoop(st1, file, Tail(nodes), re, scopes)
                  ELSE PublicIdNodeLoop(
                           [st1 EXCEPT !.resp.Incidents =
                                Append(@, Incident(UriFile(absPath), 0, node.innerText))],
                           file, Tail(nodes), re, scopes)
         ELSE PublicIdNodeLoop(st, file, Tail(nodes), re, scopes)

RECURSIVE PublicIdFileLoop(_, _, _, _)
\* xmlPublicID: the loop over the files.
PublicIdFileLoop(st, files, re, scopes) ==
    IF Len(files) = 0 THEN st
    ELSE LET file == files[1]
             res  == queryXMLFile(file, PublicIdNodes(XmlNodes(file)))
             st1  == [st EXCEPT !.handles = @ + res.opened - res.closed]
         IN  IF res.err THEN PublicIdFileLoop(st1, Tail(files), re, scopes)
             ELSE PublicIdFileLoop(PublicIdNodeLoop(st1, file, res.nodes, re, scopes),
                                   Tail(files), re, scopes)

\* case "xmlPublicID"
EvalXmlPublicID(c, scopes, cache) ==
    LET st0 == [resp |-> NewResponse, cache |-> cache, handles |-> 0, paths |-> <<>>] IN
    IF ~RegexCompiles(c.regex) THEN [st0 EXCEPT !.resp.err = TRUE]
    ELSE LET sel == XmlFilePaths(c, FALSE) IN
         IF sel.stop THEN [st0 EXCEPT !.paths = sel.paths]
         ELSE PublicIdFileLoop([st0 EXCEPT !.paths = sel.paths],
                               findXMLFiles(sel.paths), c.regex, scopes)

RECURSIVE JsonNodeLoop(_, _, _, _)
\* json: the loop over the nodes of one file.
JsonNodeLoop(st, file, nodes, scopes) ==
    IF Len(nodes) = 0 THEN st
    ELSE LET node == nodes[1]
             absPath == Abs(file)
         IN  IF ~isFileIncluded(absPath, scopes)
             THEN JsonNodeLoop(st, file, Tail(nodes), scopes)
             ELSE LET loc == getLocation(st.cache, absPath, node.innerText)
                      inc == Incident(UriFile(absPath), IncidentLine(loc.line), node.innerText)
                  IN  JsonNodeLoop([st EXCEPT !.resp.Incidents = Append(@, inc),
                                              !.cache = loc.cache],
                                   file, Tail(nodes), scopes)

RECURSIVE JsonFileLoop(_, _, _, _)
\* json: the loop over the files. os.Open(file) has no Close: every file that
\* opens stays open. A query the engine rejects ends the evaluation with the
\* error.
JsonFileLoop(st, files, q, scopes) ==
    IF Len(files) = 0 THEN st
    ELSE LET file == files[1] IN
         IF ~CanOpen(file) THEN JsonFileLoop(st, Tail(files), q, scopes)
         ELSE LET st1 == [st EXCEPT !.handles = @ + 1] IN
              IF ~CanParse(file) THEN JsonFileLoop(st1, Tail(files), q, scopes)
              ELSE IF q = qBad THEN [st1 EXCEPT !.resp.err = TRUE]
              ELSE LET list == QueryNodes(JsonNodes(file), q) IN
                   IF Len(list) # 0
                   THEN JsonFileLoop(
                            JsonNodeLoop([st1 EXCEPT !.resp.Matched = TRUE], file, list, scopes),
                            Tail(files), q, scopes)
                   ELSE JsonFileLoop(st1, Tail(files), q, scopes)

\* json: the list handed to GetFiles. The second test reads
\* cond.XML.Filepaths, the assignment cond.JSON.Filepaths.
JsonFilePaths(c) ==
    LET scoped == GetScopedFilepaths(c) IN
    IF scoped.ok THEN scoped.paths
    ELSE IF Len(c.xmlFilepaths) > 0 THEN c.jsonFilepaths
    ELSE <<>>

\* case "json"
EvalJson(c, scopes, cache) ==
    LET st0 == [resp |-> NewResponse, cache |-> cache, handles |-> 0, paths |-> <<>>] IN
    IF c.jsonXPath = <<>> THEN [st0 EXCEPT !.resp.err = TRUE]
    ELSE LET paths == JsonFilePaths(c) IN
         JsonFileLoop([st0 EXCEPT !.paths = paths], GetFiles(paths, {jsonExt}),
                      c.jsonXPath, scopes)

\* The entries filepath.WalkDir visits under Location, directories included.
TreeEntries ==
    << AbsOf(<<root>>), AbsOf(<<root, lib>>), fLibTxt, fLibJson, fLibXml,
       AbsOf(<<root, src>>), AbsOf(<<root, src, dirA>>), fSrcTxt, fSrcJson, fSrcXml,
       AbsOf(<<root, srcfoo>>), fSrcfooTxt >>

\* The regex-or-glob rule of the file capability.
FilePatternMatches(pat, str) ==
    IF RegexCompiles(pat) THEN RegexMatch(pat, str) ELSE GlobMatch(pat, str)

\* findFilesMatchingPattern: the entries whose name matches.
findFilesMatchingPattern(pat) ==
    SelectSeq(TreeEntries, LAMBDA e : FilePatternMatches(pat, PathBase(e)))

RECURSIVE FileIncidents(_, _)
\* file: the incidents of the matching files that pass isFileIncluded.
FileIncidents(matches, scopes) ==
    IF Len(matches) = 0 THEN <<>>
    ELSE LET absPath == IF IsAbs(matches[1]) THEN matches[1] ELSE Abs(matches[1]) IN
         (IF isFileIncluded(absPath, scopes)
          THEN <<Incident(UriFile(absPath), 0, <<>>)>> ELSE <<>>)
         \o FileIncidents(Tail(matches), scopes)

\* case "file"
EvalFile(c, scopes, cache) ==
    LET st0 == [resp |-> NewResponse, cache |-> cache, handles |-> 0, paths |-> <<>>] IN
    IF c.pattern = <<>> THEN [st0 EXCEPT !.resp.err = TRUE]
    ELSE LET scoped == GetScopedFilepaths(c)
             matchingFiles ==
                 IF scoped.ok
                 THEN SelectSeq(scoped.paths, LAMBDA f : FilePatternMatches(c.pattern, f))
                 ELSE findFilesMatchingPattern(c.pattern)
             incidents == FileIncidents(matchingFiles, scopes)
         IN  [st0 EXCEPT !.resp.TemplateContext = matchingFiles,
                         !.resp.Incidents = incidents,
                         !.resp.Matched = (Len(incidents) > 0)]

RECURSIVE WalkMatches(_, _)
\* The walkResults of the files in the order their workers finish.
WalkMatches(order, re) ==
    IF Len(order) = 0 THEN <<>>
    ELSE LET f == order[1]
             found == SelectSeq(FileMatches(f), LAMBDA m : RegexMatch(re, m.text))
         IN  [i \in 1..Len(found) |->
                 [uri |-> WalkUri(Abs(f)), line |-> found[i].line, match |-> found[i].text]]
             \o WalkMatches(Tail(order), re)

\* parallelWalk as Evaluate sees it: an error when a file cannot be opened,
\* else the matches in completion order. Every processFile closes its file.
parallelWalk(order, re) ==
    IF \E i \in 1..Len(TreeFiles) : ~CanOpen(TreeFiles[i])
    THEN [err |-> TRUE, matches |-> <<>>]
    ELSE [err |-> FALSE, matches |-> WalkMatches(order, re)]

RECURSIVE ContentIncidents(_, _)
\* filecontent: the matches that pass FilterFilePattern, as incidents.
ContentIncidents(matches, filePattern) ==
    IF Len(matches) = 0 THEN <<>>
    ELSE (IF FilterFilePattern(filePattern, matches[1].uri)
          THEN <<Incident(matches[1].uri, matches[1].line, matches[1].match)>>
          ELSE <<>>)
         \o ContentIncidents(Tail(matches), filePattern)

\* case "filecontent"
EvalFilecontent(c, order, cache) ==
    LET st0 == [resp |-> NewResponse, cache |-> cache, handles |-> 0, paths |-> <<>>] IN
    IF c.pattern = <<>> \/ ~RegexCompiles(c.pattern) THEN [st0 EXCEPT !.resp.err = TRUE]
    ELSE LET walk == parallelWalk(order, c.pattern) IN
         IF walk.err THEN [st0 EXCEPT !.resp.err = TRUE]
         ELSE LET incidents == ContentIncidents(walk.matches, c.filePattern) IN
              [st0 EXCEPT !.resp.Incidents = incidents,
                          !.resp.Matched = (Len(incidents) # 0)]

\* p.tags
ProviderTags == {"java", "web"}

\* case "hasTags"
EvalHasTags(c, cache) ==
    LET st0 == [resp |-> NewResponse, cache |-> cache, handles |-> 0, paths |-> <<>>]
        found == \A i \in 1..Len(c.hasTags) :
                    c.hasTags[i] \in c.ctxTags \/ c.hasTags[i] \in ProviderTags
    IN  IF found
        THEN [st0 EXCEPT !.resp.Matched = TRUE,
                         !.resp.Incidents = <<Incident(<<>>, 0, <<>>)>>]
        ELSE st0

\* The capabilities Evaluate knows, and one it does not.
capabilities == {"file", "filecontent", "xml", "xmlPublicID", "json", "hasTags"}
EvalCaps == capabilities \cup {"other"}

NoScoped == [ok |-> FALSE, paths |-> <<>>]

\* A condition with every field at its zero value.
BaseCond ==
    [pattern |-> <<>>, filePattern |-> <<>>, xpath |-> <<>>, xmlFilepaths |-> <<>>,
     jsonXPath |-> <<>>, jsonFilepaths |-> <<>>, regex |-> <<>>, hasTags |-> <<>>,
     ctxTags |-> {}, scoped |-> NoScoped]

\* The scoped file-path lists of the provider context.
Scopeds ==
    { NoScoped,
      [ok |-> TRUE, paths |-> <<fLibXml, fLibJson, fLibTxt>>],
      [ok |-> TRUE, paths |-> <<fSrcXml, fSrcJson>>] }

\* The conditions tried for each capability.
CondsOf(k) ==
    IF k = "file" THEN
        { [BaseCond EXCEPT !.pattern = pt, !.scoped = sc] :
            pt \in {<<>>, aTxt, src, <<"(">>}, sc \in Scopeds }
    ELSE IF k = "filecontent" THEN
        { [BaseCond EXCEPT !.pattern = pt, !.filePattern = fp] :
            pt \in {<<>>, <<"(">>, <<"T">>, <<"z">>}, fp \in {<<>>, lib} }
    ELSE IF k = "xml" THEN
        { [BaseCond EXCEPT !.xpath = q, !.xmlFilepaths = fp, !.scoped = sc] :
            q \in {qAll, qNone, qBad}, fp \in {<<>>, <<fSrcXml>>, <<pXml>>}, sc \in Scopeds }
    ELSE IF k = "xmlPublicID" THEN
        { [BaseCond EXCEPT !.regex = re, !.xmlFilepaths = fp, !.scoped = sc] :
            re \in {pidText, <<"o">>, <<"(">>}, fp \in {<<>>, <<fSrcXml>>}, sc \in Scopeds }
    ELSE IF k = "json" THEN
        { [BaseCond EXCEPT !.jsonXPath = q, !.jsonFilepaths = jp, !.xmlFilepaths = xp,
                           !.scoped = sc] :
            q \in {<<>>, qAll, qNone, qBad}, jp \in {<<>>, <<fLibJson>>},
            xp \in {<<>>, <<fSrcXml>>}, sc \in Scopeds }
    ELSE IF k = "hasTags" THEN
        { [BaseCond EXCEPT !.hasTags = tg, !.ctxTags = ct] :
            tg \in {<<>>, <<"java">>, <<"java", "x">>, <<"x">>}, ct \in {{}, {"x"}} }
    ELSE { BaseCond }

\* The included-paths configurations Evaluate is run under.
EvalScopes == { <<>>, <<src>>, <<lib>> }

\* The states of the file system tried: all files good, one JSON file that
\* cannot be opened, one JSON and one XML file that do not parse.
FsBads ==
    { [unreadable |-> {}, malformed |-> {}],
      [unreadable |-> {fSrcJson}, malformed |-> {}],
      [unreadable |-> {}, malformed |-> {fLibJson, fLibXml}] }

\* The orders in which the workers of the two files with matches can finish.
WalkOrders == { <<fLibTxt, fSrcTxt>>, <<fSrcTxt, fLibTxt>> }

locRest == <<fileLine, call, nCalls, writes, misses, firstDone, raced>>

EvalIdle ==
    /\ evPc = "idle" /\ cap = "" /\ cond = <<>> /\ fsBad = <<>>
    /\ response = <<>> /\ filePaths = <<>> /\ openHandles = 0

\* A service client that has served no request, about to evaluate one.
EvalInit ==
    /\ evPc = "ready"
    /\ cap \in EvalCaps
    /\ cond \in CondsOf(cap)
    /\ fsBad \in FsBads
    /\ response = NewResponse /\ filePaths = <<>> /\ openHandles = 0
    /\ inclScopes \in EvalScopes /\ inclPath = <<>> /\ inclResult = "idle"
    /\ locationCache = <<>>
    /\ fileLine = [f \in Range(TreeFiles) |-> 1]
    /\ call = <<>> /\ nCalls = 0 /\ writes = <<>> /\ misses = <<>>
    /\ firstDone = <<>> /\ raced = {}

\* Evaluate returns what the capability's branch computed.
EvaluateReturn(st) ==
    /\ evPc' = "returned"
    /\ response' = st.resp
    /\ locationCache' = st.cache
    /\ openHandles' = st.handles
    /\ filePaths' = st.paths
    /\ UNCHANGED <<cap, cond, fsBad, locRest>>

EvaluateFile ==
    /\ evPc = "ready" /\ cap = "file"
    /\ EvaluateReturn(EvalFile(cond, inclScopes, locationCache))

EvaluateFilecontent ==
    /\ evPc = "ready" /\ cap = "filecontent"
    /\ \E order \in WalkOrders :
          EvaluateReturn(EvalFilecontent(cond, order, locationCache))

EvaluateXML ==
    /\ evPc = "ready" /\ cap = "xml"
    /\ EvaluateReturn(EvalXml(cond, inclScopes, locationCache))

EvaluateXMLPublicID ==
    /\ evPc = "ready" /\ cap = "xmlPublicID"
    /\ EvaluateReturn(EvalXmlPublicID(cond, inclScopes, locationCache))

EvaluateJSON ==
    /\ evPc = "ready" /\ cap = "json"
    /\ EvaluateReturn(EvalJson(cond, inclScopes, locationCache))

EvaluateHasTags ==
    /\ evPc = "ready" /\ cap = "hasTags"
    /\ EvaluateReturn(EvalHasTags(cond, locationCache))

\* default: the capability is not one of `capabilities`.
EvaluateUnknown ==
    /\ evPc = "ready" /\ cap \notin capabilities
    /\ EvaluateReturn([resp |-> [NewResponse EXCEPT !.err = TRUE],
                       cache |-> locationCache, handles |-> 0, paths |-> <<>>])

----------------------------------------------------------------------------
(* parallelWalk and processFile                                            *)

\* eg.SetLimit(256)
Limit == 256

\* Number of entries filepath.Walk visits (entry 1 is the root directory).
NumEntries == 260

\* Entries that are directories: f.Mode().IsRegular() is false for them.
DirEntries == {1, 130}

\* Regular files for which processFile returns an error (os.Open or the
\* matcher fails).
BadFiles == {3, 200}

\* Entries for which the walk may hand the callback a non-nil err.
WalkErrEntries == {6, 259}

IsRegular(i) == i \notin DirEntries

\* Workers that are inside eg.Go's goroutine.
ActiveWorkers == running + Cardinality(runningBad)

\* processFile opens its file first and closes it on return (defer f.Close()):
\* a worker of a readable file holds one open handle while it runs.
WalkOpenHandles == running

egGoEnabled_NoLimit == TRUE

\* eg.Go blocks until a slot of the limit is free.
egGoEnabled == ActiveWorkers < Limit

WalkIdle ==
    /\ walkPc = "idle" /\ walked = 0 /\ scheduled = 0 /\ running = 0
    /\ runningBad = {} /\ egErr = 0 /\ positions = 0 /\ walkRet = "none"
    /\ lateSchedule = FALSE

WalkInit ==
    /\ walkPc = "walking" /\ walked = 0 /\ scheduled = 0 /\ running = 0
    /\ runningBad = {} /\ egErr = 0 /\ positions = 0 /\ walkRet = "none"
    /\ lateSchedule = FALSE

WalkVisit_StopAfterError ==
    /\ walkPc = "walking"
    /\ walked < NumEntries
    /\ LET i == walked + 1 IN
       /\ walked' = i
       /\ IF IsRegular(i) /\ egErr = 0
          THEN /\ egGoEnabled
               /\ scheduled' = scheduled + 1
               /\ IF i \in BadFiles
                  THEN runningBad' = runningBad \cup {i} /\ UNCHANGED running
                  ELSE running' = running + 1 /\ UNCHANGED runningBad
          ELSE UNCHANGED <<scheduled, running, runningBad>>
    /\ UNCHANGED <<walkPc, egErr, positions, lateSchedule, walkRet>>

\* The walk callback with err = nil: a regular file gets a worker (eg.Go),
\* anything else is passed over.
WalkVisit ==
    /\ walkPc = "walking"
    /\ walked < NumEntries
    /\ LET i == walked + 1 IN
       /\ walked' = i
       /\ IF IsRegular(i)
          THEN /\ egGoEnabled
               /\ scheduled' = scheduled + 1
               /\ IF i \in BadFiles
                  THEN runningBad' = runningBad \cup {i} /\ UNCHANGED running
                  ELSE running' = running + 1 /\ UNCHANGED runningBad
          ELSE UNCHANGED <<scheduled, running, runningBad>>
       /\ lateSchedule' = (lateSchedule \/ (IsRegular(i) /\ egErr # 0))
    /\ UNCHANGED <<walkPc, egErr, positions, walkRet>>

\* The walk callback with err # nil: it returns err, filepath.Walk stops and
\* parallelWalk returns (nil, err) without waiting for the group.
WalkFail ==
    /\ walkPc = "walking"
    /\ walked < NumEntries
    /\ walked + 1 \in WalkErrEntries
    /\ walked' = walked + 1
    /\ walkPc' = "returned"
    /\ walkRet' = "walkErr"
    /\ UNCHANGED <<scheduled, running, runningBad, egErr, positions, lateSchedule>>

\* filepath.Walk has visited every entry and returns nil.
WalkEnd ==
    /\ walkPc = "walking"
    /\ walked = NumEntries
    /\ walkPc' = "waiting"
    /\ UNCHANGED <<walked, scheduled, running, runningBad, egErr, positions, lateSchedule, walkRet>>

\* A worker whose processFile succeeded: the file is closed, the results are
\* appended under positionsMu, the slot is released.
WorkerDone ==
    /\ running > 0
    /\ running' = running - 1
    /\ positions' = positions + 1
    /\ UNCHANGED <<walkPc, walked, scheduled, runningBad, egErr, lateSchedule, walkRet>>

\* A worker whose processFile returned an error: errgroup keeps the first
\* error (errOnce), the slot is released.
WorkerFail(i) ==
    /\ i \in runningBad
    /\ runningBad' = runningBad \ {i}
    /\ egErr' = IF egErr = 0 THEN i ELSE egErr
    /\ UNCHANGED <<walkPc, walked, scheduled, running, positions, lateSchedule, walkRet>>

WaitReturn_NoWait ==
    /\ walkPc = "waiting"
    /\ walkPc' = "returned"
    /\ walkRet' = IF egErr = 0 THEN "ok" ELSE "workerErr"
    /\ UNCHANGED <<walked, scheduled, running, runningBad, egErr, positions, lateSchedule>>

\* eg.Wait(): returns once every worker has finished, with the first error.
WaitReturn ==
    /\ walkPc = "waiting"
    /\ ActiveWorkers = 0
    /\ walkPc' = "returned"
    /\ walkRet' = IF egErr = 0 THEN "ok" ELSE "workerErr"
    /\ UNCHANGED <<walked, scheduled, running, runningBad, egErr, positions, lateSchedule>>

----------------------------------------------------------------------------
(* Specifications                                                          *)

vars == <<regexVars, inclVars, evalVars, locVars, walkVars>>

\* compileRegex applied to every pattern of Patterns.
InitRegex == RegexInit /\ InclIdle /\ EvalIdle /\ LocIdle /\ WalkIdle

NextRegex == CompileRegex /\ UNCHANGED <<inclVars, evalVars, locVars, walkVars>>

SpecRegex == InitRegex /\ [][NextRegex]_vars

\* isFileIncluded applied to every candidate under every scope list.
InitIncl == InclInit /\ RegexIdle /\ EvalIdle /\ LocIdle /\ WalkIdle

NextIncl == IsFileIncluded /\ UNCHANGED <<regexVars, evalVars, locVars, walkVars>>

SpecIncl == InitIncl /\ [][NextIncl]_vars

\* One call of parallelWalk: the walk and its workers, interleaved.
InitWalk == WalkInit /\ RegexIdle /\ InclIdle /\ EvalIdle /\ LocIdle

NextWalk ==
    \/ WalkVisit /\ UNCHANGED <<regexVars, inclVars, evalVars, locVars>>
    \/ WalkFail /\ UNCHANGED <<regexVars, inclVars, evalVars, locVars>>
    \/ WalkEnd /\ UNCHANGED <<regexVars, inclVars, evalVars, locVars>>
    \/ WorkerDone /\ UNCHANGED <<regexVars, inclVars, evalVars, locVars>>
    \/ \E i \in BadFiles : WorkerFail(i) /\ UNCHANGED <<regexVars, inclVars, evalVars, locVars>>
    \/ WaitReturn /\ UNCHANGED <<regexVars, inclVars, evalVars, locVars>>

SpecWalk == InitWalk /\ [][NextWalk]_vars

\* Concurrent getLocation calls on one service client, with the files
\* changing underneath.
InitLoc == LocInit /\ RegexIdle /\ InclIdle /\ EvalIdle /\ WalkIdle

NextLoc ==
    \/ \E t \in Threads, c \in LocCalls :
          GetLocationBegin(t, c[1], c[2]) /\ UNCHANGED <<regexVars, inclVars, evalVars, walkVars>>
    \/ \E t \in Threads : GetLocationScan(t) /\ UNCHANGED <<regexVars, inclVars, evalVars, walkVars>>
    \/ \E t \in Threads : GetLocationStore(t) /\ UNCHANGED <<regexVars, inclVars, evalVars, walkVars>>
    \/ \E t \in Threads : GetLocationReturn(t) /\ UNCHANGED <<regexVars, inclVars, evalVars, walkVars>>
    \/ \E f \in LocFiles, st \in {0, 2} :
          ModifyFile(f, st) /\ UNCHANGED <<regexVars, inclVars, evalVars, walkVars>>

SpecLoc == InitLoc /\ [][NextLoc]_vars

\* One Evaluate call on a new service client, for every capability,
\* condition, included-paths configuration and file-system state tried.
InitEval == EvalInit /\ RegexIdle /\ WalkIdle

NextEval ==
    \/ EvaluateFile /\ UNCHANGED <<regexVars, inclVars, walkVars>>
    \/ EvaluateFilecontent /\ UNCHANGED <<regexVars, inclVars, walkVars>>
    \/ EvaluateXML /\ UNCHANGED <<regexVars, inclVars, walkVars>>
    \/ EvaluateXMLPublicID /\ UNCHANGED <<regexVars, inclVars, walkVars>>
    \/ EvaluateJSON /\ UNCHANGED <<regexVars, inclVars, walkVars>>
    \/ EvaluateHasTags /\ UNCHANGED <<regexVars, inclVars, walkVars>>
    \/ EvaluateUnknown /\ UNCHANGED <<regexVars, inclVars, walkVars>>

SpecEval == InitEval /\ [][NextEval]_vars

----------------------------------------------------------------------------
(* Properties                                                              *)

\* The pattern begins with one of the four lookaround prefixes.
StartsWithLookaround(p) == \E i \in 1..Len(LOOK_SYNTAX) : HasPrefix(p, LOOK_SYNTAX[i])

\* C3: compileRegex selects the backtracking engine (regexp2) exactly for the
\* patterns that begin with a lookaround prefix, and the Go regexp engine for
\* all others.
C3_EngineByLookaroundPrefix ==
    selector.engine \in {"regexp", "regexp2"} =>
        (selector.engine = "regexp2" <=> StartsWithLookaround(pattern))

\* Regular files among the first n entries of the walk.
NumRegular(n) == Cardinality({i \in 1..n : IsRegular(i)})

\* C4 (as claimed): once a worker has returned an error, the walk starts no
\* further worker.
C4_NoScheduleAfterWorkerError ==
    [][egErr # 0 => scheduled' = scheduled]_vars

\* C4 (amended): a worker's error does not stop the walk. When parallelWalk
\* returns a worker's error, the walk has visited every entry and a worker
\* was started for every regular file, those found after the failure too.
C4_WorkerErrorAfterFullWalk ==
    walkRet = "workerErr" =>
        /\ walked = NumEntries
        /\ scheduled = NumRegular(NumEntries)
        /\ egErr # 0

\* A worker error was returned after workers had been started past the failure.
C4_Witness == walkRet = "workerErr" /\ lateSchedule /\ egErr = 3

\* C5: at every moment at most Limit (256) workers run, hence at most Limit
\* files are held open by processFile.
C5_AtMostLimitWorkers ==
    /\ ActiveWorkers <= Limit
    /\ WalkOpenHandles <= Limit

\* The walk is blocked in eg.Go: the ceiling is reached and the next entry is
\* a regular file.
C5_Witness ==
    /\ walkPc = "walking"
    /\ ActiveWorkers = Limit
    /\ walked < NumEntries
    /\ IsRegular(walked + 1)
    /\ ~ENABLED WalkVisit

RECURSIVE IsSegmentPrefix(_, _)
\* The segments of prefix are, one by one, the first segments of segs.
IsSegmentPrefix(prefix, segs) ==
    IF Len(prefix) = 0 THEN TRUE
    ELSE IF Len(segs) = 0 THEN FALSE
    ELSE prefix[1] = segs[1] /\ IsSegmentPrefix(Tail(prefix), Tail(segs))

\* Inclusion by segment comparison, as section 4.5 of the specification
\* states it.
SegmentwiseIncluded(absolutePath, includedPaths) ==
    IF Len(includedPaths) = 0 THEN TRUE
    ELSE \E i \in 1..Len(includedPaths) :
            LET includedPath == Abs(PathJoin(Location, includedPaths[i])) IN
            IsSegmentPrefix(getSegments(includedPath),
                            IF StatIsDir(includedPath)
                            THEN getSegments(PathDir(absolutePath))
                            ELSE getSegments(absolutePath))

\* C10: isFileIncluded is true for every path without scopes, and otherwise
\* exactly when some scope's segments are a segment-by-segment prefix of the
\* candidate's parent-directory segments (directory scope) or of its own
\* segments (file scope).
C10_SegmentPrefixInclusion ==
    inclResult \in {"included", "excluded"} =>
        (inclResult = "included" <=> SegmentwiseIncluded(inclPath, inclScopes))

\* C6 (as claimed): the cache is written exactly once per key, under every
\* interleaving: no key is ever written a second time.
C6_OneWritePerKey == \A k \in DOMAIN writes : writes[k] <= 1

\* C6 (amended): only a call whose own lookup missed scans and writes, once.
\* A call whose lookup comes after the key was stored neither scans nor
\* writes; calls that all miss before any of them has stored each write the
\* key, so a key is written once per missed lookup, possibly more than once.
C6_WritesOnlyByMissedLookups ==
    /\ \A t \in DOMAIN call :
          call[t].keyWasStored =>
              /\ ~call[t].scanned
              /\ ~call[t].wrote
              /\ call[t].pc = "done"
    /\ \A k \in DOMAIN writes : writes[k] <= BagGet(misses, k)

\* Two overlapping calls both wrote the key, and a call that came after the
\* key was stored returned from the cache.
C6_Witness ==
    \E t \in DOMAIN call :
        /\ call[t].keyWasStored
        /\ call[t].pc = "done"
        /\ BagGet(writes, call[t].key) = 2

\* C7 (as claimed): once a call for (path, content) has returned, every later
\* call with the same pair returns the first call's outcome and does not
\* search the file again.
C7_LaterCallRepeatsFirst ==
    \A t \in DOMAIN call :
        call[t].later =>
            /\ ~call[t].scanned
            /\ call[t].pc = "done" =>
                  call[t].outcome = firstDone[<<call[t].path, call[t].content>>]

\* C7 (amended): a later call never searches the file again, and it returns
\* the first call's outcome provided the first call did not overlap another
\* call of the same cache key (one that had also missed and stored its own
\* result after the first call's).
C7_LaterCallRepeatsFirstUnlessRaced ==
    \A t \in DOMAIN call :
        call[t].later =>
            /\ ~call[t].scanned
            /\ (call[t].pc = "done" /\ <<call[t].path, call[t].content>> \notin raced) =>
                  call[t].outcome = firstDone[<<call[t].path, call[t].content>>]

\* A later call has returned the first outcome from the cache although the
\* file no longer gives that result.
C7_Witness ==
    \E t \in DOMAIN call :
        /\ call[t].later
        /\ call[t].pc = "done"
        /\ call[t].keyWasStored
        /\ <<call[t].path, call[t].content>> \notin raced
        /\ call[t].outcome = firstDone[<<call[t].path, call[t].content>>]
        /\ GrepLine(fileLine[call[t].path]) # call[t].outcome

\* C1: for every capability other than file, when Evaluate returns without
\* error, Matched is true if and only if at least one incident was appended.
C1_MatchedIffIncident ==
    (evPc = "returned" /\ cap # "file" /\ ~response.err)
        => (response.Matched <=> Len(response.Incidents) > 0)

FileBasedCaps == {"file", "filecontent", "xml", "xmlPublicID", "json"}

\* C2: with a non-empty included-paths list, no incident returned by a
\* file-based capability names a file that isFileIncluded rejects.
C2_IncidentsPassInclusion ==
    (evPc = "returned" /\ cap \in FileBasedCaps /\ Len(inclScopes) > 0)
        => \A i \in 1..Len(response.Incidents) :
              isFileIncluded(UriPath(response.Incidents[i].FileURI), inclScopes)

\* The list the json capability is said to search: the scoped list when
\* there is one, else the json condition's own filepaths, else none (a full
\* tree search).
JsonFilePathsAsStated(c) ==
    LET scoped == GetScopedFilepaths(c) IN
    IF scoped.ok THEN scoped.paths
    ELSE IF Len(c.jsonFilepaths) > 0 THEN c.jsonFilepaths
    ELSE <<>>

\* C8: the json capability's candidate files are the scoped list when one is
\* present, else the json condition's filepaths when non-empty, else every
\* *.json file of the tree, whatever the other capabilities' fields hold.
C8_JsonCandidateSet ==
    (evPc = "returned" /\ cap = "json" /\ cond.jsonXPath # <<>>)
        => GetFiles(filePaths, {jsonExt})
              = GetFiles(JsonFilePathsAsStated(cond), {jsonExt})

\* C9: when Evaluate returns, every file handle it opened has been closed.
C9_NoHandleLeftOpen == evPc = "returned" => openHandles = 0

\* C11: whenever parallelWalk has returned an error to its caller, from a
\* worker or from the directory walk itself, no worker it started is still
\* running.
C11_ErrorReturnAfterWorkersEnd ==
    (walkPc = "returned" /\ walkRet \in {"workerErr", "walkErr"})
        => ActiveWorkers = 0

====
